---- MODULE Spec2Model ----
(***************************************************************************)
(* State-machine model of code_analyzer.py (SleepAdvisor): the environment *)
(* gate, the analyzer invocations, the obsolete-marker scanner, the        *)
(* summary aggregator and the driver main() that sequences them.           *)
(*                                                                         *)
(* Text is modelled as a sequence of one-character strings, so substring   *)
(* search, strip(), endswith() and number formatting are computed.         *)
(***************************************************************************)
EXTENDS Integers, Sequences, FiniteSets, TLC

VARIABLES
    pc,         \* position of main(): which step runs next
    installed,  \* host state: the packages pip has installed
    missing,    \* check_python_environment's list `missing`
    answer,     \* the text typed at the install prompt (<<>> when not asked)
    files,      \* the report directory: artifact name -> file
    tree,       \* the project's files, in file-system enumeration order
    log,        \* the invocations executed so far in this run, in order
    captured,   \* artifact name -> the text captured for it in this run
    fault,      \* the exception that ended this run ("none" if none)
    summary,    \* the rows generate_summary_report built in this run
    startFiles, \* the report directory as this run found it
    scanned,    \* the obsolete-marker reports written so far, one per scan
    lastFailed, \* the tools whose process failed to launch in the latest step
    streams     \* what the process of the latest step's last analyzer
                \* invocation emitted, and the artifact that invocation is for

vars == <<pc, installed, missing, answer, files, tree, log, captured,
          fault, summary, startFiles, scanned, lastFailed, streams>>

----------------------------------------------------------------------------
(* Bounds of the model.                                                    *)

\* how many lines a source file holds at most
MaxLines == 2

----------------------------------------------------------------------------
(* Text helpers: Python's str operations on sequences of characters.       *)

\* str.strip() removes from both ends every character c with c.isspace():
\* the blank, \t, \n, \r, the form feed \f, the vertical tab (0B), the
\* separators 1C to 1F, NEL (85) and the no-break space (A0), and the
\* Unicode spaces above FF, which are written here by their code point
Whitespace ==
    {" ", "\t", "\n", "\r", "\f", "", "", "", "", "", "", " ",
     "U+1680", "U+2000", "U+2001", "U+2002", "U+2003", "U+2004", "U+2005", "U+2006",
     "U+2007", "U+2008", "U+2009", "U+200A", "U+2028", "U+2029", "U+202F", "U+205F", "U+3000"}

RECURSIVE LStrip(_)
LStrip(s) ==
    IF s = <<>> THEN <<>>
    ELSE IF Head(s) \in Whitespace THEN LStrip(Tail(s)) ELSE s

RECURSIVE RStrip(_)
RStrip(s) ==
    IF s = <<>> THEN <<>>
    ELSE IF s[Len(s)] \in Whitespace THEN RStrip(SubSeq(s, 1, Len(s) - 1)) ELSE s

\* str.strip()
Strip(s) == RStrip(LStrip(s))

\* `needle in hay` for strings
Contains(hay, needle) ==
    \E i \in 1..(Len(hay) - Len(needle) + 1) :
        SubSeq(hay, i, i + Len(needle) - 1) = needle

\* str.endswith(suffix)
EndsWith(s, suffix) ==
    /\ Len(suffix) <= Len(s)
    /\ SubSeq(s, Len(s) - Len(suffix) + 1, Len(s)) = suffix

\* str.startswith(prefix)
StartsWith(s, prefix) ==
    /\ Len(prefix) <= Len(s)
    /\ SubSeq(s, 1, Len(prefix)) = prefix

DigitChars == <<"0", "1", "2", "3", "4", "5", "6", "7", "8", "9">>

\* the decimal text of a natural number, as an f-string formats it
RECURSIVE FormatInt(_)
FormatInt(n) ==
    IF n < Len(DigitChars) THEN <<DigitChars[n + 1]>>
    ELSE FormatInt(n \div Len(DigitChars)) \o <<DigitChars[(n % Len(DigitChars)) + 1]>>

\* str.lower() on the letters the prompt's answers use
LowerChar(c) ==
    CASE c = "S" -> "s"
      [] c = "N" -> "n"
      [] c = "I" -> "i"
      [] c = "M" -> "m"
      [] OTHER -> c

Lower(s) == [i \in 1..Len(s) |-> LowerChar(s[i])]

----------------------------------------------------------------------------
(* Configuration (code_analyzer.py lines 16-20).                           *)

SOURCE_DIR ==
    <<"a", "p", "p", "/", "s", "r", "c", "/", "m", "a", "i", "n">>

\* the artifact files the checks write under REPORT_DIR
Artifacts ==
    {"flake8_report.txt", "pylint_report.txt", "radon_cc_report.txt",
     "duplicate_code_report.txt", "unused_code_report.txt", "security_report.txt",
     "secrets_report.txt", "deprecated_apis_report.txt", "code_format_report.txt"}

\* a path of the report directory that holds no file
AbsentFile == [exists |-> FALSE, readable |-> FALSE, text |-> <<>>]

\* a readable file holding `text`
FileWith(text) == [exists |-> TRUE, readable |-> TRUE, text |-> text]

\* REPORT_DIR right after its creation
EmptyReportDir == [a \in Artifacts |-> AbsentFile]

----------------------------------------------------------------------------
(* External processes and run_command.                                     *)

REQUIRED_PACKAGES ==
    <<"flake8", "black", "radon", "vulture", "bandit", "mypy", "pylint",
      "detect-secrets">>

Required == {REQUIRED_PACKAGES[i] : i \in 1..Len(REQUIRED_PACKAGES)}

\* texts an analyzer may print on standard output: nothing, or a finding
Outputs == {<<>>, <<"E", "1", "\n">>}

\* texts an analyzer may print on standard error: nothing, or a warning
ErrOutputs == {<<>>, <<"w", "\n">>}

ExitCodes == {0, 1}

\* subprocess.run could not start the process
NoLaunch == [launched |-> FALSE, code |-> 0, out |-> <<>>, err |-> <<>>]

\* what one external process may do: fail to start, or exit with a code
\* after printing on its two streams
Procs ==
    {NoLaunch} \cup
    [launched : {TRUE}, code : ExitCodes, out : Outputs, err : ErrOutputs]

\* run_command without its except clause: the failure to launch is raised
RunCommandUncaught(p) ==
    IF p.launched
    THEN [raised |-> FALSE, code |-> p.code, out |-> p.out]
    ELSE [raised |-> TRUE, code |-> -1, out |-> <<>>]

\* run_command: (returncode, stdout) of the process, or (-1, "") when
\* subprocess.run raised; `raised` tells whether run_command itself raises
RunCommand(p) ==
    IF p.launched
    THEN [raised |-> FALSE, code |-> p.code, out |-> p.out]
    ELSE [raised |-> FALSE, code |-> -1, out |-> <<>>]

\* what `pip show <pkg>` prints when pip describes an installed package
PipShowText == <<"N", "a", "m", "e", ":", "\n">>

\* the process `python -m pip show pkg` on a host with `inst` installed
PipShow(pkg, inst, launches) ==
    IF ~launches THEN NoLaunch
    ELSE IF pkg \in inst
    THEN [launched |-> TRUE, code |-> 0, out |-> PipShowText, err |-> <<>>]
    ELSE [launched |-> TRUE, code |-> 1, out |-> <<>>, err |-> <<"w", "\n">>]

----------------------------------------------------------------------------
(* check_python_environment (the environment gate).                        *)

\* the loop of lines 65-69: the packages whose `pip show` printed nothing
MissingPackages(inst, showFail) ==
    SelectSeq(REQUIRED_PACKAGES,
              LAMBDA pkg :
                  Strip(RunCommand(PipShow(pkg, inst, pkg \notin showFail)).out) = <<>>)

\* the host after `pip install <missing>`: only a successful install adds
\* the packages; its result is not looked at by the gate
AfterInstall(inst, m, outcome) ==
    IF outcome = "ok"
    THEN inst \cup {m[i] : i \in 1..Len(m)}
    ELSE inst

\* the gate taking every answer but "n" for a yes
GateVerdictDefaultYes(m, ans) ==
    IF m # <<>>
    THEN Lower(ans) # <<"n">>
    ELSE TRUE

\* lines 71-82: TRUE when main() may go on to the checks
GateVerdict(m, ans) ==
    IF m # <<>>
    THEN Lower(ans) = <<"s">>
    ELSE TRUE

----------------------------------------------------------------------------
(* find_deprecated_apis (the obsolete-marker scanner).                     *)

deprecated_patterns ==
    << <<"@", "D", "e", "p", "r", "e", "c", "a", "t", "e", "d">>,
       <<"d", "e", "p", "r", "e", "c", "a", "t", "e", "d", "(">>,
       <<"D", "e", "p", "r", "e", "c", "a", "t", "i", "o", "n", "W", "a", "r", "n",
         "i", "n", "g">>,
       <<"P", "e", "n", "d", "i", "n", "g", "D", "e", "p", "r", "e", "c", "a", "t",
         "i", "o", "n", "W", "a", "r", "n", "i", "n", "g">>,
       <<"#", " ", "T", "O", "D", "O", ":", " ", "R", "e", "m", "o", "v", "e">>,
       <<"#", " ", "F", "I", "X", "M", "E", ":">>,
       <<"#", " ", "X", "X", "X", ":">> >>

AllowedExtensions ==
    << <<".", "k", "t">>, <<".", "j", "a", "v", "a">>, <<".", "p", "y">>,
       <<".", "x", "m", "l">>, <<".", "g", "r", "a", "d", "l", "e">> >>

\* the header line 238 writes
ReportHeader ==
    <<"=", "=", "=", " ", "A", "P", "I", "s", " ", "e", " ", "C", "ó", "d", "i", "g",
      "o", " ", "O", "b", "s", "o", "l", "e", "t", "o", " ", "E", "n", "c", "o", "n",
      "t", "r", "a", "d", "o", " ", "=", "=", "=", "\n", "\n">>

\* file.endswith(('.kt', '.java', '.py', '.xml', '.gradle'))
HasAllowedExtension(name) ==
    \E i \in 1..Len(AllowedExtensions) : EndsWith(name, AllowedExtensions[i])

\* a file's directory is SOURCE_DIR or below it
UnderSourceDir(f) ==
    \/ f.dir = SOURCE_DIR
    \/ StartsWith(f.dir, SOURCE_DIR \o <<"/">>)

\* os.walk(SOURCE_DIR): the files below the source root, as enumerated
Walk(t) == SelectSeq(t, LAMBDA f : UnderSourceDir(f))

\* file_path.relative_to(PROJECT_ROOT)
RelPath(f) == f.dir \o <<"/">> \o f.name

\* src_file.readlines(): every line with its newline
ReadLines(f) == [i \in 1..Len(f.lines) |-> f.lines[i] \o <<"\n">>]

\* all(...) in place of any(...)
LineMatchesEveryPattern(line) ==
    \A k \in 1..Len(deprecated_patterns) : Contains(line, deprecated_patterns[k])

\* any(pattern in line for pattern in deprecated_patterns)
LineMatches(line) ==
    \E k \in 1..Len(deprecated_patterns) : Contains(line, deprecated_patterns[k])

\* the two f.write calls of lines 253-254 for line i
Entry(f, i, line) ==
    <<"A", "r", "q", "u", "i", "v", "o", ":", " ">> \o RelPath(f) \o <<":">>
        \o FormatInt(i) \o <<"\n">>
        \o <<"L", "i", "n", "h", "a", " ">> \o FormatInt(i) \o <<":", " ">>
        \o Strip(line) \o <<"\n", "\n">>

\* the loop of lines 251-255 over lines[i..]
RECURSIVE EntriesFrom(_, _, _)
EntriesFrom(f, lines, i) ==
    IF i > Len(lines) THEN <<>>
    ELSE (IF LineMatches(lines[i]) THEN Entry(f, i, lines[i]) ELSE <<>>)
             \o EntriesFrom(f, lines, i + 1)

\* lines 243-258 for one enumerated file: skipped by its extension, or by
\* the exception its open/decode raised, or else scanned
ScanFile(f) ==
    IF ~HasAllowedExtension(f.name) THEN <<>>
    ELSE IF ~f.readable THEN <<>>
    ELSE EntriesFrom(f, ReadLines(f), 1)

\* the try placed around the loop: the first unreadable allow-listed file
\* ends the scan
RECURSIVE ScanFilesAbortOnError(_)
ScanFilesAbortOnError(fs) ==
    IF fs = <<>> THEN <<>>
    ELSE IF HasAllowedExtension(Head(fs).name) /\ ~Head(fs).readable THEN <<>>
    ELSE ScanFile(Head(fs)) \o ScanFilesAbortOnError(Tail(fs))

RECURSIVE ScanFiles(_)
ScanFiles(fs) ==
    IF fs = <<>> THEN <<>> ELSE ScanFile(Head(fs)) \o ScanFiles(Tail(fs))

\* everything find_deprecated_apis writes to its report
ScanReport(t) == ReportHeader \o ScanFiles(Walk(t))

\* the flag deprecated_found after the scan
DeprecatedFound(t) == ScanFiles(Walk(t)) # <<>>

----------------------------------------------------------------------------
(* generate_summary_report (the summary aggregator).                       *)

reports ==
    << <<"Qualidade do Codigo (pylint)", "pylint_report.txt">>,
       <<"Codigo Duplicado", "duplicate_code_report.txt">>,
       <<"Codigo Nao Utilizado", "unused_code_report.txt">>,
       <<"Problemas de Seguranca", "security_report.txt">>,
       <<"APIs Obsoletas", "deprecated_apis_report.txt">>,
       <<"Formatacao do Codigo", "code_format_report.txt">> >>

Attention == "[!] Requer atencao"
Clean == "[OK] Sem problemas"
ReadError == "[ERRO] Falha ao ler o arquivo"

\* the summary row computed without strip()
SummaryRowUnstripped(fs, title, filename) ==
    IF ~fs[filename].exists THEN <<>>
    ELSE IF ~fs[filename].readable THEN << <<title, ReadError>> >>
    ELSE IF fs[filename].text # <<>> THEN << <<title, Attention>> >>
    ELSE << <<title, Clean>> >>

\* lines 307-318 for one (title, filename): the rows appended to summary
SummaryRow(fs, title, filename) ==
    IF ~fs[filename].exists THEN <<>>
    ELSE IF ~fs[filename].readable THEN << <<title, ReadError>> >>
    ELSE IF Strip(fs[filename].text) # <<>> THEN << <<title, Attention>> >>
    ELSE << <<title, Clean>> >>

RECURSIVE SummaryRowsFrom(_, _)
SummaryRowsFrom(fs, i) ==
    IF i > Len(reports) THEN <<>>
    ELSE SummaryRow(fs, reports[i][1], reports[i][2]) \o SummaryRowsFrom(fs, i + 1)

\* the rows of the summary, in the order of the mapping
SummaryRows(fs) == SummaryRowsFrom(fs, 1)

----------------------------------------------------------------------------
(* Inputs: hosts, answers and source trees the runs are checked on.        *)

\* the sets of installed packages a behaviour may start with
HostStates == {Required, Required \ {"flake8"}}

\* which `pip show` queries fail to launch during one gate
ShowFailures == {{}, Required}

\* what the user may type at the prompt
Answers == {<<"s">>, <<"S">>, <<"n">>, <<"s", "i", "m">>, <<>>}

\* how `pip install` may end
InstallOutcomes == {"ok", "failed", "nolaunch"}

LineTodoSlash ==
    <<"/", "/", " ", "T", "O", "D", "O", ":", " ", "R", "e", "m", "o", "v", "e", " ",
      "l", "e", "g", "a", "c", "y", " ", "s", "y", "n", "c", " ", "p", "a", "t", "h">>

LineFixme == <<" ", "\f", "#", " ", "F", "I", "X", "M", "E", ":", " ", "x">>

LineLowerDeprecated ==
    <<"@", "d", "e", "p", "r", "e", "c", "a", "t", "e", "d", " ", "f", "u", "n", " ",
      "f", "(", ")">>

\* the lines the files of ScanTrees are made of: one with a marker behind
\* a leading blank and form feed, one with a marker's letters in another case
SourceLines == {LineFixme, LineLowerDeprecated}

\* the contents a source file may have: at most MaxLines lines
LineSeqs == UNION {[1..n -> SourceLines] : n \in 0..MaxLines}

\* where a file may be: (directory, name)
ToolsDir == <<"t", "o", "o", "l", "s">>

Places ==
    { <<SOURCE_DIR, <<"A", ".", "k", "t">> >>,
      <<SOURCE_DIR \o <<"/", "r", "e", "s">>, <<"v", ".", "x", "m", "l">> >>,
      <<SOURCE_DIR, <<"r", ".", "m", "d">> >>,
      <<ToolsDir, <<"C", ".", "p", "y">> >> }

\* a file that can be read holds any of the line sequences; one that cannot
\* be opened or decoded holds a marker line the scan never gets to see
SourceFiles ==
    {[dir |-> pl[1], name |-> pl[2], readable |-> TRUE, lines |-> ls] :
        pl \in Places, ls \in LineSeqs}
    \cup {[dir |-> pl[1], name |-> pl[2], readable |-> FALSE, lines |-> <<LineFixme>>] :
        pl \in Places}

\* the project trees of the scanner's specification: no file, one file, or
\* two files at different places, in either enumeration order
ScanTrees ==
    {<<>>} \cup {<<f>> : f \in SourceFiles}
           \cup {p \in SourceFiles \X SourceFiles :
                     <<p[1].dir, p[1].name>> # <<p[2].dir, p[2].name>>}

KtFile(ls) ==
    [dir |-> SOURCE_DIR, name |-> <<"A", ".", "k", "t">>, readable |-> TRUE, lines |-> ls]

\* the project trees of the pipeline's specification
PipelineTrees ==
    { <<KtFile(<<LineTodoSlash>>)>>,
      <<KtFile(<<LineTodoSlash, LineFixme>>)>> }

----------------------------------------------------------------------------
(* The state of one run and the steps that change it.                      *)

NotCaptured == [ran |-> FALSE, text |-> <<>>]

\* no process ran for a report of the check
NoStreams == [artifact |-> "", out |-> <<>>, err |-> <<>>]

\* the child process of subprocess.run: what it printed on each stream
StreamsOf(artifact, p) ==
    IF p.launched THEN [artifact |-> artifact, out |-> p.out, err |-> p.err]
    ELSE NoStreams
Captured(text) == [ran |-> TRUE, text |-> text]

\* the file opened with "a" in place of "w"
WriteFileAppend(fs, name, text) ==
    [fs EXCEPT ![name] = [exists |-> TRUE,
                          readable |-> IF @.exists THEN @.readable ELSE TRUE,
                          text |-> @.text \o text]]

\* open(path, "w") followed by f.write(text): the file holds `text` alone
WriteFile(fs, name, text) ==
    [fs EXCEPT ![name] = [exists |-> TRUE,
                          readable |-> IF @.exists THEN @.readable ELSE TRUE,
                          text |-> text]]

\* the part of the state a check works on, as the check finds it
Cur ==
    [files |-> files, log |-> log, captured |-> captured, fault |-> fault,
     nolaunch |-> {}, streams |-> NoStreams]

\* run_command as a check calls it: the tool is logged, and a failed launch
\* is noted; if run_command raises, the exception ends the run
Call(st, tool, p) ==
    LET r == RunCommand(p)
        s1 == [st EXCEPT !.log = Append(@, tool),
                         !.nolaunch = IF p.launched THEN @ ELSE @ \cup {tool}]
    IN  IF r.raised THEN [s1 EXCEPT !.fault = "launch"] ELSE s1

\* one analyzer invocation whose stdout the check writes to `artifact`:
\* run_command, then open(artifact, "w") and f.write(output).  When open
\* raises (~wok) the exception ends the run there.
Invoke(st, tool, artifact, p, wok) ==
    IF st.fault # "none" THEN st
    ELSE LET s1 == [Call(st, tool, p) EXCEPT !.streams = StreamsOf(artifact, p)]
             out == RunCommand(p).out
         IN  IF s1.fault # "none" THEN s1
             ELSE IF ~wok
             THEN [s1 EXCEPT !.captured[artifact] = Captured(out),
                             !.fault = "write"]
             ELSE [s1 EXCEPT !.captured[artifact] = Captured(out),
                             !.files = WriteFile(@, artifact, out)]

\* the bandit invocation (lines 185-192): bandit itself is to write its
\* report `rep` to the path given with -o when it runs; the check writes
\* nothing and does not look at the file.  When bandit leaves without
\* writing (~wrote: it could not open the path, or it failed before its
\* report) the file stays as the check found it.
InvokeBandit(st, p, rep, wrote) ==
    IF st.fault # "none" THEN st
    ELSE LET s1 == Call(st, "bandit", p)
         IN  IF s1.fault # "none" THEN s1
             ELSE IF p.launched /\ wrote
             THEN [s1 EXCEPT !.captured["security_report.txt"] = Captured(rep),
                             !.files = WriteFile(@, "security_report.txt", rep)]
             ELSE IF p.launched
             THEN [s1 EXCEPT !.captured["security_report.txt"] = Captured(rep)]
             ELSE [s1 EXCEPT !.captured["security_report.txt"] =
                                 Captured(RunCommand(p).out)]

\* the scan: open(report_file, "w"), the header, the entries
ScanStep(st, t, wok) ==
    IF ~wok
    THEN [st EXCEPT !.log = Append(@, "scanner"), !.fault = "write"]
    ELSE [st EXCEPT !.log = Append(@, "scanner"),
                    !.captured["deprecated_apis_report.txt"] = Captured(ScanReport(t)),
                    !.files = WriteFile(@, "deprecated_apis_report.txt", ScanReport(t))]

----------------------------------------------------------------------------
(* The steps of main().                                                    *)

\* main() calling the scanner after the formatting check
MainStepsScannerLast ==
    <<"analyze_code_quality", "find_duplicate_code", "find_unused_code",
      "check_security_issues", "check_code_format", "find_deprecated_apis",
      "generate_summary_report">>

\* lines 336-342: the calls main() makes after the gate, in order
MainSteps ==
    <<"analyze_code_quality", "find_duplicate_code", "find_unused_code",
      "check_security_issues", "find_deprecated_apis", "check_code_format",
      "generate_summary_report">>

\* where main() goes when `step` returns
StepAfter(step) ==
    IF \E i \in 1..(Len(MainSteps) - 1) : MainSteps[i] = step
    THEN MainSteps[(CHOOSE i \in 1..(Len(MainSteps) - 1) : MainSteps[i] = step) + 1]
    ELSE "done"

\* the check `step` returns to main(), or its exception ends main()
Finish(st, step) ==
    /\ files' = st.files
    /\ log' = st.log
    /\ captured' = st.captured
    /\ fault' = st.fault
    /\ lastFailed' = st.nolaunch
    /\ streams' = st.streams
    /\ pc' = IF st.fault = "none" THEN StepAfter(step) ELSE "crashed"

\* the script is started: python code_analyzer.py
StartMain ==
    /\ pc = "idle"
    /\ pc' = "gate"
    /\ UNCHANGED <<installed, missing, answer, files, tree, log, captured, fault,
                   summary, startFiles, scanned, lastFailed, streams>>

\* main() lines 332-334 with check_python_environment
check_python_environment ==
    /\ pc = "gate"
    /\ \E showFail \in ShowFailures, ans \in Answers, outcome \in InstallOutcomes :
          LET m == MissingPackages(installed, showFail)
              raised == \E i \in 1..Len(REQUIRED_PACKAGES) :
                            RunCommand(PipShow(REQUIRED_PACKAGES[i], installed,
                                               REQUIRED_PACKAGES[i] \notin showFail)).raised
          IN  IF raised
              THEN /\ pc' = "crashed"
                   /\ fault' = "launch"
                   /\ UNCHANGED <<missing, answer, installed>>
              ELSE /\ missing' = m
                   /\ answer' = IF m # <<>> THEN ans ELSE <<>>
                   /\ installed' = IF m # <<>> /\ GateVerdict(m, ans)
                                   THEN AfterInstall(installed, m, outcome)
                                   ELSE installed
                   /\ pc' = IF GateVerdict(m, ans) THEN MainSteps[1] ELSE "blocked"
                   /\ fault' = fault
    /\ log' = Append(log, "gate")
    /\ lastFailed' = {}
    /\ streams' = NoStreams
    /\ UNCHANGED <<files, tree, captured, summary, startFiles, scanned>>

analyze_code_quality ==
    /\ pc = "analyze_code_quality"
    /\ \E p1 \in Procs, p2 \in Procs, w1 \in BOOLEAN, w2 \in BOOLEAN :
          LET s1 == Invoke(Cur, "flake8", "flake8_report.txt", p1, w1)
              s2 == Invoke(s1, "pylint", "pylint_report.txt", p2, w2)
          IN  Finish(s2, "analyze_code_quality")
    /\ UNCHANGED <<installed, missing, answer, tree, summary, startFiles, scanned>>

find_duplicate_code ==
    /\ pc = "find_duplicate_code"
    /\ \E p1 \in Procs, p2 \in Procs, w1 \in BOOLEAN, w2 \in BOOLEAN :
          LET s1 == Invoke(Cur, "radon_cc", "radon_cc_report.txt", p1, w1)
              s2 == Invoke(s1, "radon_dupes", "duplicate_code_report.txt", p2, w2)
          IN  Finish(s2, "find_duplicate_code")
    /\ UNCHANGED <<installed, missing, answer, tree, summary, startFiles, scanned>>

find_unused_code ==
    /\ pc = "find_unused_code"
    /\ \E p \in Procs, w \in BOOLEAN :
          Finish(Invoke(Cur, "vulture", "unused_code_report.txt", p, w),
                 "find_unused_code")
    /\ UNCHANGED <<installed, missing, answer, tree, summary, startFiles, scanned>>

check_security_issues ==
    /\ pc = "check_security_issues"
    /\ \E p1 \in Procs, rep \in Outputs, wrote \in BOOLEAN, p2 \in Procs,
          w2 \in BOOLEAN :
          LET s1 == InvokeBandit(Cur, p1, rep, wrote)
              s2 == Invoke(s1, "detect_secrets", "secrets_report.txt", p2, w2)
          IN  Finish(s2, "check_security_issues")
    /\ UNCHANGED <<installed, missing, answer, tree, summary, startFiles, scanned>>

find_deprecated_apis ==
    /\ pc = "find_deprecated_apis"
    /\ \E w \in BOOLEAN :
          LET s1 == ScanStep(Cur, tree, w)
          IN  /\ Finish(s1, "find_deprecated_apis")
              /\ scanned' = IF w
                            THEN Append(scanned, s1.files["deprecated_apis_report.txt"].text)
                            ELSE scanned
    /\ UNCHANGED <<installed, missing, answer, tree, summary, startFiles>>

check_code_format ==
    /\ pc = "check_code_format"
    /\ \E p \in Procs, w \in BOOLEAN :
          Finish(Invoke(Cur, "black", "code_format_report.txt", p, w),
                 "check_code_format")
    /\ UNCHANGED <<installed, missing, answer, tree, summary, startFiles, scanned>>

\* generate_summary_report, then the closing lines 344-346 of main()
generate_summary_report ==
    /\ pc = "generate_summary_report"
    /\ summary' = SummaryRows(files)
    /\ log' = Append(log, "summary")
    /\ pc' = StepAfter("generate_summary_report")
    /\ lastFailed' = {}
    /\ streams' = NoStreams
    /\ UNCHANGED <<installed, missing, answer, files, tree, captured, fault,
                   startFiles, scanned>>

----------------------------------------------------------------------------
(* Specifications.                                                         *)

\* what an earlier execution that found something with every analyzer left
\* in the report directory of a project whose tree is t
LeftByEarlierRun(t) ==
    [a \in Artifacts |->
        IF a = "deprecated_apis_report.txt"
        THEN FileWith(ScanReport(t))
        ELSE FileWith(<<"E", "0", "\n">>)]

\* the report directories an execution may find: a fresh one, or one an
\* earlier execution on the same tree filled
FoundReportDirs(t) == {EmptyReportDir, LeftByEarlierRun(t)}

\* the scans behind a found report directory
ScansBehind(dir, t) == IF dir = EmptyReportDir THEN <<>> ELSE <<ScanReport(t)>>

Init ==
    /\ pc = "idle"
    /\ installed \in HostStates
    /\ missing = <<>>
    /\ answer = <<>>
    /\ tree \in PipelineTrees
    /\ files \in FoundReportDirs(tree)
    /\ log = <<>>
    /\ captured = [a \in Artifacts |-> NotCaptured]
    /\ fault = "none"
    /\ summary = <<>>
    /\ startFiles = files
    /\ scanned = ScansBehind(files, tree)
    /\ lastFailed = {}
    /\ streams = NoStreams

Next ==
    \/ StartMain
    \/ check_python_environment
    \/ analyze_code_quality
    \/ find_duplicate_code
    \/ find_unused_code
    \/ check_security_issues
    \/ find_deprecated_apis
    \/ check_code_format
    \/ generate_summary_report

\* one execution of the script, from its start to its end
Spec == Init /\ [][Next]_vars

(* The scanner on every tree of ScanTrees: the execution is taken up where *)
(* main() calls find_deprecated_apis, on a host with every package, after  *)
(* analyzers that printed nothing.                                         *)

QuietProc == [launched |-> TRUE, code |-> 0, out |-> <<>>, err |-> <<>>]

BeforeScan(dir) ==
    LET s0 == [files |-> dir, log |-> <<"gate">>,
               captured |-> [a \in Artifacts |-> NotCaptured], fault |-> "none",
               nolaunch |-> {}, streams |-> NoStreams]
        s1 == Invoke(s0, "flake8", "flake8_report.txt", QuietProc, TRUE)
        s2 == Invoke(s1, "pylint", "pylint_report.txt", QuietProc, TRUE)
        s3 == Invoke(s2, "radon_cc", "radon_cc_report.txt", QuietProc, TRUE)
        s4 == Invoke(s3, "radon_dupes", "duplicate_code_report.txt", QuietProc, TRUE)
        s5 == Invoke(s4, "vulture", "unused_code_report.txt", QuietProc, TRUE)
        s6 == InvokeBandit(s5, QuietProc, <<>>, TRUE)
    IN  Invoke(s6, "detect_secrets", "secrets_report.txt", QuietProc, TRUE)

InitScan ==
    /\ pc = "find_deprecated_apis"
    /\ installed = Required
    /\ missing = <<>>
    /\ answer = <<>>
    /\ tree \in ScanTrees
    /\ startFiles \in FoundReportDirs(tree)
    /\ files = BeforeScan(startFiles).files
    /\ log = BeforeScan(startFiles).log
    /\ captured = BeforeScan(startFiles).captured
    /\ fault = "none"
    /\ summary = <<>>
    /\ scanned = ScansBehind(startFiles, tree)
    /\ lastFailed = {}
    /\ streams = NoStreams

NextScan ==
    \/ find_deprecated_apis
    \/ check_code_format
    \/ generate_summary_report

SpecScan == InitScan /\ [][NextScan]_vars

(* The summary on every report directory of SummaryDirs: the execution is  *)
(* taken up where main() calls generate_summary_report.                    *)

\* what a file of the report directory may be when the summary reads it:
\* absent, unreadable, empty, blank, or holding findings
FileStates ==
    { AbsentFile,
      [exists |-> TRUE, readable |-> FALSE, text |-> <<>>],
      FileWith(<<>>),
      FileWith(<<" ", "\f", "\n">>),
      FileWith(<<" ", "E", "1", "\n">>) }

\* the artifacts the summary's mapping names
Summarised == {reports[i][2] : i \in 1..Len(reports)}

SummaryDirs ==
    {d \in [Artifacts -> FileStates] :
        \A a \in Artifacts \ Summarised : d[a] = FileWith(<<>>)}

InitSummary ==
    /\ pc = "generate_summary_report"
    /\ installed = Required
    /\ missing = <<>>
    /\ answer = <<>>
    /\ tree = <<>>
    /\ files \in SummaryDirs
    /\ startFiles = EmptyReportDir
    /\ log = <<"gate", "flake8", "pylint", "radon_cc", "radon_dupes", "vulture",
               "bandit", "detect_secrets", "scanner", "black">>
    /\ captured = [a \in Artifacts |-> NotCaptured]
    /\ fault = "none"
    /\ summary = <<>>
    /\ scanned = <<>>
    /\ lastFailed = {}
    /\ streams = NoStreams

NextSummary == generate_summary_report

SpecSummary == InitSummary /\ [][NextSummary]_vars

----------------------------------------------------------------------------
(* Claims.                                                                 *)

\* the statuses the summary shows for a title
Rows(title) == {summary[i][2] : i \in {j \in 1..Len(summary) : summary[j][1] = title}}

\* the order in which the code makes its invocations
CodeOrder ==
    <<"gate", "flake8", "pylint", "radon_cc", "radon_dupes", "vulture", "bandit",
      "detect_secrets", "scanner", "black", "summary">>

\* the invocations each check makes
ToolsOf(step) ==
    CASE step = "analyze_code_quality" -> {"flake8", "pylint"}
      [] step = "find_duplicate_code" -> {"radon_cc", "radon_dupes"}
      [] step = "find_unused_code" -> {"vulture"}
      [] step = "check_security_issues" -> {"bandit", "detect_secrets"}
      [] step = "check_code_format" -> {"black"}
      [] OTHER -> {}

InLog(l, tool) == \E i \in 1..Len(l) : l[i] = tool

IsPrefix(a, b) == Len(a) <= Len(b) /\ SubSeq(b, 1, Len(a)) = a

\* C1: gate blocking.  When the gate found a package missing and the answer,
\* lower-cased, is not "s", the run is blocked: nothing but the gate has
\* executed, no summary was built, and the report directory is as the run
\* found it.
C1_GateBlocking ==
    (pc \notin {"idle", "gate"} /\ missing # <<>> /\ Lower(answer) # <<"s">>)
        => /\ pc = "blocked"
           /\ log = <<"gate">>
           /\ summary = <<>>
           /\ files = startFiles
           /\ \A a \in Artifacts : ~captured[a].ran

\* a blocked run that declined with "sim" and left an earlier run's reports
C1_Witness ==
    /\ pc = "blocked"
    /\ missing = <<"flake8">>
    /\ answer = <<"s", "i", "m">>
    /\ files = LeftByEarlierRun(tree)

\* C2: partial-failure tolerance.  A check in which an analyzer failed to
\* launch (and no report could not be opened) still makes all its
\* invocations and returns to main(), which goes on to the next step; and a
\* run that reaches its end has made every invocation and the summary.
C2_LaunchFailureTolerated ==
    [][ /\ (lastFailed' # {} /\ fault' # "write")
            => /\ pc' = StepAfter(pc)
               /\ \A t \in ToolsOf(pc) : InLog(log', t)
        /\ pc' = "done" => log' = CodeOrder /\ Len(summary') > 0 ]_vars

\* flake8 failed to launch; pylint ran and main() went on to the next check
C2_Witness ==
    /\ pc = "find_duplicate_code"
    /\ lastFailed = {"flake8"}
    /\ InLog(log, "pylint")

\* C3 as stated: a clean row iff the artifact exists and its stripped
\* content is empty, an attention row iff it exists and its stripped content
\* is not empty, no row iff it does not exist.
C3_SummaryCorrect_Original ==
    pc = "done" =>
        \A i \in 1..Len(reports) :
            LET title == reports[i][1]
                f == files[reports[i][2]]
            IN  /\ (Clean \in Rows(title)) <=> (f.exists /\ Strip(f.text) = <<>>)
                /\ (Attention \in Rows(title)) <=> (f.exists /\ Strip(f.text) # <<>>)
                /\ (Rows(title) = {}) <=> ~f.exists

\* C3 amended: a clean row iff the artifact exists, can be read and its
\* stripped content is empty; an attention row iff it exists, can be read
\* and its stripped content is not empty; an error row iff it exists and
\* cannot be read; no row iff it does not exist.  A title has at most one row.
C3_SummaryCorrect ==
    pc = "done" =>
        \A i \in 1..Len(reports) :
            LET title == reports[i][1]
                f == files[reports[i][2]]
            IN  /\ (Clean \in Rows(title))
                       <=> (f.exists /\ f.readable /\ Strip(f.text) = <<>>)
                /\ (Attention \in Rows(title))
                       <=> (f.exists /\ f.readable /\ Strip(f.text) # <<>>)
                /\ (ReadError \in Rows(title)) <=> (f.exists /\ ~f.readable)
                /\ (Rows(title) = {}) <=> ~f.exists
                /\ Cardinality(Rows(title)) <= 1

\* a summary over a directory with a blank file, a file with findings, an
\* unreadable file and an absent one
C3_Witness ==
    /\ pc = "done"
    /\ files["pylint_report.txt"] = FileWith(<<" ", "\f", "\n">>)
    /\ Rows(reports[1][1]) = {Clean}
    /\ files["duplicate_code_report.txt"] = FileWith(<<" ", "E", "1", "\n">>)
    /\ files["unused_code_report.txt"] = [exists |-> TRUE, readable |-> FALSE, text |-> <<>>]
    /\ files["security_report.txt"] = AbsentFile
    /\ Len(summary) >= 3

\* no line of an allow-listed file of the tree holds a marker
NoMarkerInTree(t) ==
    \A k \in 1..Len(t) :
        HasAllowedExtension(t[k].name) =>
            \A n \in 1..Len(t[k].lines) :
                \A m \in 1..Len(deprecated_patterns) :
                    ~Contains(t[k].lines[n], deprecated_patterns[m])

\* C4: the zero-match scenario.  After a run over a tree without any marker
\* the obsolete-marker report holds the header alone and the summary row of
\* "APIs Obsoletas" reads clean.
C4_ZeroMatchClean ==
    (pc = "done" /\ NoMarkerInTree(tree))
        => /\ files["deprecated_apis_report.txt"].text = ReportHeader
           /\ Rows("APIs Obsoletas") = {Clean}

\* the first line of the entry the scanner writes for line n of file f
EntryHead(f, n) ==
    <<"A", "r", "q", "u", "i", "v", "o", ":", " ">> \o f.dir \o <<"/">> \o f.name
        \o <<":">> \o FormatInt(n) \o <<"\n">>

CountOf(hay, needle) ==
    Cardinality({i \in 1..(Len(hay) - Len(needle) + 1) :
                    SubSeq(hay, i, i + Len(needle) - 1) = needle})

\* line n of f holds a marker, f's name has an allow-listed extension, and f
\* lies under the source root
Reportable(f, n) ==
    /\ \E m \in 1..Len(deprecated_patterns) : Contains(f.lines[n], deprecated_patterns[m])
    /\ \E e \in {<<".", "k", "t">>, <<".", "j", "a", "v", "a">>, <<".", "p", "y">>,
                 <<".", "x", "m", "l">>, <<".", "g", "r", "a", "d", "l", "e">>} :
           EndsWith(f.name, e)
    /\ StartsWith(f.dir \o <<"/">>, SOURCE_DIR \o <<"/">>)

\* the obsolete-marker report of a run whose scan wrote it
ScanDone == captured["deprecated_apis_report.txt"].ran

TheReport == files["deprecated_apis_report.txt"].text

\* C5 as stated: an entry for line n of file f iff Reportable(f, n), and no
\* other entry.
C5_ScannerExact_Original ==
    ScanDone =>
        /\ \A k \in 1..Len(tree) : \A n \in 1..Len(tree[k].lines) :
               (CountOf(TheReport, EntryHead(tree[k], n)) > 0) <=> Reportable(tree[k], n)
        /\ CountOf(TheReport, <<"A", "r", "q", "u", "i", "v", "o", ":", " ">>)
               = Cardinality({x \in (1..Len(tree)) \X (1..MaxLines) :
                                 /\ x[2] <= Len(tree[x[1]].lines)
                                 /\ Reportable(tree[x[1]], x[2])})

\* C5 amended: an entry for line n of file f iff Reportable(f, n) and f can
\* be opened and decoded; exactly one entry for each such line and no other.
C5_ScannerExact ==
    ScanDone =>
        /\ \A k \in 1..Len(tree) : \A n \in 1..Len(tree[k].lines) :
               CountOf(TheReport, EntryHead(tree[k], n))
                   = IF Reportable(tree[k], n) /\ tree[k].readable THEN 1 ELSE 0
        /\ CountOf(TheReport, <<"A", "r", "q", "u", "i", "v", "o", ":", " ">>)
               = Cardinality({x \in (1..Len(tree)) \X (1..MaxLines) :
                                 /\ x[2] <= Len(tree[x[1]].lines)
                                 /\ Reportable(tree[x[1]], x[2])
                                 /\ tree[x[1]].readable})

\* a scan of a tree where only line 2 of A.kt is reported, enumerated after
\* a file outside the source root that holds a marker
C5_Witness ==
    /\ ScanDone
    /\ Len(tree) = 2
    /\ tree[1].dir = ToolsDir /\ tree[1].lines = <<LineFixme>> /\ tree[1].readable
    /\ tree[2].dir = SOURCE_DIR /\ tree[2].name = <<"A", ".", "k", "t">>
    /\ tree[2].readable
    /\ tree[2].lines = <<LineLowerDeprecated, LineFixme>>
    /\ CountOf(TheReport, EntryHead(tree[2], Len(tree[2].lines))) > 0

\* the invocations of external analyzers
AnalyzerTools ==
    {"flake8", "pylint", "radon_cc", "radon_dupes", "vulture", "bandit",
     "detect_secrets", "black"}

\* C6 as stated: the gate first, then every analyzer invocation (formatting
\* included), only then the scanner, the summary last; no analyzer
\* invocation after the scanner has started.
C6_PipelineOrder_Original ==
    /\ (Len(log) > 0 => log[1] = "gate")
    /\ \A i \in 1..Len(log) : \A j \in 1..Len(log) :
           /\ (log[i] = "scanner" /\ i < j) => log[j] \notin AnalyzerTools
           /\ (log[i] = "summary") => j <= i

\* C6 amended: the gate first, then flake8, pylint, the two radon
\* invocations, vulture, bandit and detect-secrets, then the scanner, then
\* the formatting check (black), and the summary last: what a run has
\* executed is always a prefix of this order, and a completed run has
\* executed all of it.
C6_PipelineOrder ==
    /\ IsPrefix(log, CodeOrder)
    /\ pc = "done" => log = CodeOrder
    /\ pc = "check_code_format" => InLog(log, "scanner") /\ ~InLog(log, "black")

\* a completed run: the formatting check ran after the scanner
C6_Witness ==
    /\ pc = "done"
    /\ log = CodeOrder
    /\ \E i \in 1..Len(log) : log[i] = "scanner" /\ log[i + 1] = "black"

\* the steps of main() that are checks
CheckSteps == {MainSteps[i] : i \in 1..(Len(MainSteps) - 1)}

\* C7: fail-closed gate.  Whenever a check is about to start or has started,
\* every required package is installed on the host.
C7_FailClosed ==
    (pc \in CheckSteps \/ \E t \in AnalyzerTools \cup {"scanner"} : InLog(log, t))
        => Required \subseteq installed

\* C8: the summary is always reached past the gate: no exception ends
\* main(), and in particular a report that cannot be opened for writing
\* does not.
C8_SummaryAlwaysReached ==
    /\ pc # "crashed"
    /\ fault = "write" => pc \in CheckSteps \cup {"generate_summary_report", "done"}

\* C9: artifacts are fresh.  After a run that passed the gate and completed,
\* every artifact exists and holds exactly the text captured for its check
\* in this run (the empty text for an analyzer that failed to launch).
C9_ArtifactsFresh ==
    pc = "done" =>
        \A a \in Artifacts :
            /\ captured[a].ran
            /\ files[a].exists
            /\ files[a].text = captured[a].text

\* C10: scanner idempotence.  The obsolete-marker reports that consecutive
\* scans of the same tree leave are the same text.
C10_ScannerIdempotent ==
    \A i \in 1..Len(scanned) : \A j \in 1..Len(scanned) : scanned[i] = scanned[j]

\* a second scan wrote a report with two entries, over an earlier report
C10_Witness ==
    /\ Len(scanned) > 1
    /\ scanned[Len(scanned)] = files["deprecated_apis_report.txt"].text
    /\ startFiles["deprecated_apis_report.txt"].exists
    /\ CountOf(TheReport, <<"A", "r", "q", "u", "i", "v", "o", ":", " ">>) > 1

\* C11: summary coverage.  After a run in which every check wrote its
\* artifact, every artifact written in the run (the style report, the
\* complexity report and the secret scan included) has a status row in the
\* summary.
C11_SummaryCoversEveryArtifact ==
    (pc = "done" /\ \A a \in Artifacts : captured[a].ran /\ files[a].exists)
        => \A a \in Artifacts :
               \E i \in 1..Len(reports) : reports[i][2] = a /\ Rows(reports[i][1]) # {}

\* the entry the scanner writes for line n of f
EntryText(f, n) ==
    EntryHead(f, n) \o <<"L", "i", "n", "h", "a", " ">> \o FormatInt(n) \o <<":", " ">>
        \o Strip(f.lines[n]) \o <<"\n", "\n">>

\* C12: the TODO scenario.  After a run over a tree whose file A.kt holds
\* the line "// TODO: Remove legacy sync path", the obsolete-marker report
\* is the header plus exactly one entry, for that file and line, and the
\* summary row of "APIs Obsoletas" reads attention.
C12_TodoScenario ==
    (pc = "done" /\ tree = <<KtFile(<<LineTodoSlash>>)>>)
        => /\ TheReport = ReportHeader \o EntryText(tree[1], 1)
           /\ Rows("APIs Obsoletas") = {Attention}

\* the states of the pipeline's state machine, in order: Idle,
\* EnvironmentChecking, Running(check_i), Summarizing, and the terminal
\* states Blocked and Done
MachineStates ==
    {"idle", "gate", "blocked", "done"} \cup {MainSteps[i] : i \in 1..Len(MainSteps)}

\* C13: the state machine and its termination.  A run is always in one of
\* the machine's states, and a run that can take no further step has ended
\* in Blocked or in Done.
C13_StateMachine ==
    /\ pc \in MachineStates
    /\ (~ENABLED Next) => pc \in {"blocked", "done"}

\* the tree without its k-th file
WithoutFile(t, k) == SubSeq(t, 1, k - 1) \o SubSeq(t, k + 1, Len(t))

\* the start of every entry of file f
FileHead(f) ==
    <<"A", "r", "q", "u", "i", "v", "o", ":", " ">> \o f.dir \o <<"/">> \o f.name
        \o <<":">>

\* C14: scanner read-failure containment.  A file that cannot be opened or
\* decoded has no entry in the report, and the report is the one the scan
\* writes for the tree without that file: the scan went on over the other
\* files and their entries are unchanged.
C14_ReadFailureContained ==
    ScanDone =>
        \A k \in 1..Len(tree) :
            ~tree[k].readable =>
                /\ CountOf(TheReport, FileHead(tree[k])) = 0
                /\ TheReport = ScanReport(WithoutFile(tree, k))
                /\ \A j \in 1..Len(tree) : \A n \in 1..Len(tree[j].lines) :
                       (j # k /\ tree[j].readable /\ Reportable(tree[j], n))
                           => CountOf(TheReport, EntryText(tree[j], n)) = 1

\* the scan met an unreadable A.kt with a marker line first and still wrote
\* the entry of res/v.xml, enumerated after it
C14_Witness ==
    /\ ScanDone
    /\ Len(tree) = 2
    /\ tree[1].name = <<"A", ".", "k", "t">> /\ ~tree[1].readable
    /\ tree[1].lines = <<LineFixme>>
    /\ tree[2].name = <<"v", ".", "x", "m", "l">> /\ tree[2].readable
    /\ tree[2].lines = <<LineLowerDeprecated, LineFixme>>
    /\ CountOf(TheReport, EntryText(tree[2], Len(tree[2].lines))) = 1

\* C15: combined capture.  After a check whose analyzer process ran and
\* whose report was written, the text run_command returned and the text of
\* the report artifact are the process's standard output followed by its
\* standard error, whatever the exit code.
C15_CombinedCapture ==
    (streams # NoStreams /\ fault = "none")
        => /\ captured[streams.artifact] = Captured(streams.out \o streams.err)
           /\ files[streams.artifact] = FileWith(streams.out \o streams.err)

====
